---- MODULE Spec2Model ----
(***************************************************************************)
(* ec2api/api/common.py: the describers.  One local store of one resource  *)
(* kind, its tag records, and describer objects whose describe() is        *)
(* executed step by step (fetch, one pairing-loop iteration per step, one  *)
(* cleanup iteration per step, the unresolved check).                      *)
(*                                                                         *)
(* Python strings that are matched with fnmatch are tuples of one-letter   *)
(* strings; Python None is a sentinel of the type at hand (NoItem, NoProj, *)
(* a "given" flag for the optional arguments).                             *)
(***************************************************************************)
EXTENDS Integers, Sequences, FiniteSets, TLC

VARIABLES
    KIND,              \* the describer class's KIND
    db,                \* local store: set of records [id, os_id] of KIND
    nextId,            \* next identifier the store hands out
    tagdb,             \* tag records [item_id, key, value] of the store
    pc,                \* per describer: position inside describe()
    tags,              \* per describer: self.tags ([loaded, recs])
    req,               \* per describer: the arguments of the running call
    selective_describe,\* per describer: local of describe()
    ids,               \* per describer: self.ids
    names,             \* per describer: self.names
    filter,            \* per describer: the filter list handed to the base describe
    items,             \* per describer: self.items
    os_items,          \* per describer: self.os_items
    idx,               \* per describer: position of the pairing loop / cleanup loop
    paired_items_ids,  \* per describer: local of describe()
    formatted_items,   \* per describer: local of describe()
    outcome,           \* per describer: how the call ended ([kind, id, name])
    created,           \* history: records auto-created by the running call
    skipped,           \* history: indexes of os_items skipped by the selective rule
    deleted            \* history: ids handed to delete_obsolete_item, in order

glob == <<KIND, db, nextId, tagdb>>
call == <<req, selective_describe, ids, names, filter, items, os_items, idx,
          paired_items_ids, formatted_items, outcome, created, skipped, deleted>>
vars == <<glob, pc, tags, call>>

----------------------------------------------------------------------------
(* Bounds and input pools *)

MaxOsItems == 2        \* longest provider inventory
MaxId == 4             \* last identifier the store can hand out

Describers == {1, 2}

VPC_KINDS == {"vpc", "igw", "subnet", "eni", "dopt", "eipalloc", "sg", "rtb"}
Kinds == {"i", "vpc"}

OsItem(i, n, h) == [id |-> i, name |-> n, hidden |-> h]
OsPool == { OsItem("E1", <<"a", "b">>, FALSE),
            OsItem("E2", <<"b">>, FALSE),
            OsItem("E3", <<>>, FALSE),
            OsItem("E3", <<"a", "b">>, TRUE) }

Item(i, o) == [id |-> i, os_id |-> o]
NoItem == Item(0, "None")
NoProj == [osId |-> "None"]

InitDbs == { {},
             {Item(1, "E1")},
             {Item(1, "E1"), Item(2, "E2")},
             {Item(1, "E1"), Item(2, "E1")},
             {Item(1, "E1"), Item(2, "E3")} }
MaxOf(S) == IF S = {} THEN 0 ELSE CHOOSE m \in S : \A x \in S : x <= m

\* tag keys are one-letter strings, so that Chars(key) is the key as fnmatch sees it
Tag(i, k, v) == [item_id |-> i, key |-> k, value |-> v]
Chars(k) == <<k>>
TagStores == { {}, {Tag(1, "k", <<"a", "b">>), Tag(2, "k", <<"b">>),
                   Tag(2, "j", <<"a", "b">>)} }

Str(s) == [t |-> "str", s |-> s]
Filter(n, v) == [name |-> n, value |-> v]
FilterPool == { <<Filter(<<"bad">>, <<Str(<<"*">>)>>)>>,
                <<Filter(<<"name">>, <<Str(<<>>), Str(<<"a", "*">>)>>)>>,
                <<Filter(<<"name">>, <<Str(<<"a", "*">>)>>),
                  Filter(<<"bad">>, <<Str(<<"*">>)>>)>>,
                <<Filter(<<"tag", "k">>, <<Str(<<"c">>), Str(<<"a", "*">>)>>)>>,
                <<Filter(<<"name">>, <<Str(<<"c">>)>>),
                  Filter(<<"tag-key">>, <<Str(<<"k">>)>>)>>,
                <<Filter(<<"tag-key">>, <<Str(<<"j">>)>>),
                  Filter(<<"name">>, <<Str(<<"*">>)>>)>> }

IdsPool == { {1}, {1, 2} }
NamesPool == { {<<"a", "b">>} }

Req(ig, i, ng, n, fg, f) ==
    [idsGiven |-> ig, ids |-> i, namesGiven |-> ng, names |-> n,
     filterGiven |-> fg, filter |-> f]
NoReq == Req(FALSE, {}, FALSE, {}, FALSE, <<>>)
\* ids in {None} + IdsPool, names in {None, []} + NamesPool,
\* filter in {None, []} + FilterPool
Requests ==
    { Req(i # {}, i, n[1], n[2], f[1], f[2]) :
        i \in IdsPool \cup {{}},
        n \in {<<FALSE, {}>>, <<TRUE, {}>>} \cup { <<TRUE, x>> : x \in NamesPool },
        f \in {<<FALSE, <<>> >>, <<TRUE, <<>> >>} \cup { <<TRUE, x>> : x \in FilterPool } }

RECURSIVE SeqsOf(_, _)
SeqsOf(S, n) ==
    IF n = 0 THEN {<<>>}
    ELSE LET shorter == SeqsOf(S, n - 1)
         IN  shorter \cup { Append(s, x) : s \in shorter, x \in S }
Range(s) == { s[i] : i \in 1..Len(s) }
DistinctIds(s) == \A i, j \in 1..Len(s) : i # j => s[i].id # s[j].id
Inventories == { s \in SeqsOf(OsPool, MaxOsItems) : DistinctIds(s) }
Orderings(S) == { s \in SeqsOf(S, Cardinality(S)) :
                    Len(s) = Cardinality(S) /\ Range(s) = S }

----------------------------------------------------------------------------
(* Collaborators outside common.py *)

\* ec2utils.get_db_items: the records of the kind, scoped to ids when there are any
get_db_items(store, scope) ==
    IF scope = {} THEN store ELSE { i \in store : i.id \in scope }

\* db_api.get_tags: the tag records of the kind, scoped to ids when there are any
get_tags(store, scope) ==
    IF scope = {} THEN store ELSE { t \in store : t.item_id \in scope }

\* the kind's projection hook: a record of the output fields, or None
format(item, os_item) ==
    IF os_item.hidden THEN NoProj
    ELSE [osId |-> os_item.id, name |-> os_item.name, itemId |-> item.id]

\* the kind's own FILTER_MAP entries
KindFilterMap == (<<"name">> :> [path |-> "simple", attr |-> "name", elem |-> ""])

----------------------------------------------------------------------------
(* common.py *)

get_id(os_item) == os_item.id
get_name(os_item) == os_item.name

\* variant: the dict keyed by i['id'], where no os_id is ever found
items_dict_get_by_id(its, os_id) == NoItem

\* dict((i['os_id'], i) for i in self.items).get(os_id, None): the last one wins
items_dict_get(its, os_id) ==
    LET hits == { i \in 1..Len(its) : its[i].os_id = os_id }
    IN  IF hits = {} THEN NoItem ELSE its[MaxOf(hits)]

\* variant: auto_update_db without the 'item is None' test
auto_creates_always(kind, item) == kind \notin VPC_KINDS

\* variant: auto_update_db without the VPC_KINDS test
auto_creates_any_kind(kind, item) == item = NoItem

\* auto_update_db: whether a record is created for (item, os_item)
auto_creates(kind, item) == item = NoItem /\ kind \notin VPC_KINDS

\* TaggableItemsDescriber.__init__
FILTER_MAP ==
    (<<"tag-key">> :> [path |-> "list", attr |-> "tagSet", elem |-> "key"])
    @@ (<<"tag-value">> :> [path |-> "list", attr |-> "tagSet", elem |-> "value"])
    @@ (<<"tag">> :> [path |-> "simple", attr |-> "tagSet", elem |-> ""])
    @@ KindFilterMap

\* fnmatch.fnmatch(value, pat): '*', '?' and literals, case-sensitive
RECURSIVE fnmatch(_, _)
fnmatch(value, pat) ==
    IF pat = <<>> THEN value = <<>>
    ELSE IF Head(pat) = "*"
         THEN fnmatch(value, Tail(pat))
              \/ (value # <<>> /\ fnmatch(Tail(value), pat))
    ELSE IF value = <<>> THEN FALSE
    ELSE IF Head(pat) = "?" THEN fnmatch(Tail(value), Tail(pat))
    ELSE Head(pat) = Head(value) /\ fnmatch(Tail(value), Tail(pat))

\* variant: the structured tag predicate matched on the values alone, whatever
\* the key of the pair
is_filtering_value_found_any_key(filter_value, value) ==
    IF filter_value.t = "dict"
    THEN IF value.t = "list"
         THEN IF \E tag_pair \in value.l :
                    \E k \in 1..Len(filter_value.value) :
                        fnmatch(tag_pair.value, filter_value.value[k].s)
              THEN "T" ELSE "F"
         ELSE "F"
    ELSE IF value.t = "list" THEN "E"
    ELSE IF fnmatch(value.s, filter_value.s) THEN "T" ELSE "F"

\* TaggableItemsDescriber.is_filtering_value_found: "T", "F", or "E" (TypeError:
\* fnmatch of a list)
is_filtering_value_found(filter_value, value) ==
    IF filter_value.t = "dict"
    THEN IF value.t = "list"
         THEN IF \E tag_pair \in value.l :
                    /\ filter_value.key = tag_pair.key
                    /\ \E k \in 1..Len(filter_value.value) :
                          fnmatch(tag_pair.value, filter_value.value[k].s)
              THEN "T" ELSE "F"
         ELSE "F"
    ELSE IF value.t = "list" THEN "E"
    ELSE IF fnmatch(value.s, filter_value.s) THEN "T" ELSE "F"

\* variant: the simple path without the truth test of line 77
filter_candidates_any_value(item, filter_name) ==
    LET has == filter_name.attr \in DOMAIN item
    IN  IF filter_name.path = "list"
        THEN IF ~has THEN {}
             ELSE { Str(IF filter_name.elem = "key" THEN Chars(v.key) ELSE v.value) :
                      v \in item[filter_name.attr] }
        ELSE IF ~has THEN {}
             ELSE IF filter_name.attr = "tagSet"
                  THEN {[t |-> "list", l |-> item.tagSet]}
                  ELSE {Str(item[filter_name.attr])}

\* the candidate values of one filter: lines 72-77
filter_candidates(item, filter_name) ==
    LET has == filter_name.attr \in DOMAIN item
    IN  IF filter_name.path = "list"
        THEN IF ~has THEN {}
             ELSE { Str(IF filter_name.elem = "key" THEN Chars(v.key) ELSE v.value) :
                      v \in item[filter_name.attr] }
        ELSE IF ~has THEN {}
             ELSE IF filter_name.attr = "tagSet"
                  THEN IF item.tagSet = {} THEN {}
                       ELSE {[t |-> "list", l |-> item.tagSet]}
                  ELSE IF item[filter_name.attr] = <<>> THEN {}
                       ELSE {Str(item[filter_name.attr])}

\* lines 81-84: the first filter value, in list order, that matches or raises.
\* The candidates of one filter are all strings or one list, so a filter value
\* either raises on all of them or on none.
RECURSIVE scan_values(_, _)
scan_values(filter_values, values) ==
    IF filter_values = <<>> THEN "F"
    ELSE LET rs == { is_filtering_value_found(Head(filter_values), v) : v \in values }
         IN  IF "E" \in rs THEN "E"
             ELSE IF "T" \in rs THEN "T"
             ELSE scan_values(Tail(filter_values), values)

Verdict(r, n) == [r |-> r, name |-> n]

\* the first filter of the list whose name FILTER_MAP does not hold, or 0
first_unmapped(filters) ==
    LET bad == { j \in 1..Len(filters) : filters[j].name \notin DOMAIN FILTER_MAP }
    IN  IF bad = {} THEN 0 ELSE CHOOSE j \in bad : \A i \in bad : j <= i

\* variant: every filter name is validated before any filter is evaluated
RECURSIVE filtered_out_list_eager(_, _)
filtered_out_list_eager(item, filters) ==
    IF first_unmapped(filters) # 0
    THEN Verdict("InvalidParameterValue", filters[first_unmapped(filters)].name)
    ELSE IF filters = <<>> THEN Verdict("True", <<>>)
    ELSE LET values == filter_candidates(item, FILTER_MAP[Head(filters).name])
             found == scan_values(Head(filters).value, values)
         IN  IF values = {} THEN Verdict("True", <<>>)
             ELSE IF found = "T" THEN Verdict("False", <<>>)
             ELSE IF found = "E" THEN Verdict("TypeError", <<>>)
             ELSE filtered_out_list_eager(item, Tail(filters))

\* variant: the record is retained when every filter matches (AND across the
\* filters)
RECURSIVE filtered_out_list_all(_, _)
filtered_out_list_all(item, filters) ==
    IF filters = <<>> THEN Verdict("True", <<>>)
    ELSE LET f == Head(filters)
         IN  IF f.name \notin DOMAIN FILTER_MAP
             THEN Verdict("InvalidParameterValue", f.name)
             ELSE LET values == filter_candidates(item, FILTER_MAP[f.name])
                      found == scan_values(f.value, values)
                  IN  IF values = {} THEN Verdict("True", <<>>)
                      ELSE IF found = "E" THEN Verdict("TypeError", <<>>)
                      ELSE IF found = "F" THEN Verdict("True", <<>>)
                      ELSE IF Tail(filters) = <<>> THEN Verdict("False", <<>>)
                      ELSE filtered_out_list_all(item, Tail(filters))

\* filtered_out for a filter list that is not None
RECURSIVE filtered_out_list(_, _)
filtered_out_list(item, filters) ==
    IF filters = <<>> THEN Verdict("True", <<>>)
    ELSE LET f == Head(filters)
         IN  IF f.name \notin DOMAIN FILTER_MAP
             THEN Verdict("InvalidParameterValue", f.name)
             ELSE LET values == filter_candidates(item, FILTER_MAP[f.name])
                      found == scan_values(f.value, values)
                  IN  IF values = {} THEN Verdict("True", <<>>)
                      ELSE IF found = "T" THEN Verdict("False", <<>>)
                      ELSE IF found = "E" THEN Verdict("TypeError", <<>>)
                      ELSE filtered_out_list(item, Tail(filters))

\* variant: filtered_out without the 'filters is None' test
filtered_out_always(item, given, filters) == filtered_out_list(item, filters)

\* filtered_out
filtered_out(item, given, filters) ==
    IF ~given THEN Verdict("False", <<>>) ELSE filtered_out_list(item, filters)

\* TaggableItemsDescriber.describe, lines 164-171: 'tag:<K>' becomes 'tag'
rewrite_filter(f) ==
    IF Len(f.name) >= 2 /\ f.name[1] = "tag"
    THEN Filter(<<"tag">>,
                <<[t |-> "dict", key |-> f.name[2], value |-> f.value]>>)
    ELSE f
rewrite_filters(fs) == [k \in 1..Len(fs) |-> rewrite_filter(fs[k])]

\* variant: the pairs of every loaded tag record, whoever owns it
formatted_tags_of_all(recs, item) ==
    { [key |-> t.key, value |-> t.value] : t \in recs }

\* post_format, lines 154-157: the {key, value} pairs of one record
formatted_tags(recs, item) ==
    { [key |-> t.key, value |-> t.value] : t \in { x \in recs : x.item_id = item.id } }

with_tagSet(f, ts) ==
    [osId |-> f.osId, name |-> f.name, itemId |-> f.itemId, tagSet |-> ts]

Out(k, i, n) == [kind |-> k, id |-> i, name |-> n]
NoOut == Out("none", 0, <<>>)
NoTags == [loaded |-> FALSE, recs |-> {}]

\* variant: the unresolved check ahead of the cleanup
after_loop_unchecked(its) == "check"

\* where describe() goes when the pairing loop is over
after_loop(its) == IF its = <<>> THEN "check" ELSE "cleanup"

----------------------------------------------------------------------------
(* State machine *)

Init ==
    /\ KIND \in Kinds
    /\ db \in InitDbs
    /\ nextId = 1 + MaxOf({ i.id : i \in db })
    /\ tagdb \in TagStores
    /\ pc = [p \in Describers |-> "idle"]
    /\ tags = [p \in Describers |-> NoTags]
    /\ req = [p \in Describers |-> NoReq]
    /\ selective_describe = [p \in Describers |-> FALSE]
    /\ ids = [p \in Describers |-> {}]
    /\ names = [p \in Describers |-> {}]
    /\ filter = [p \in Describers |-> <<>>]
    /\ items = [p \in Describers |-> <<>>]
    /\ os_items = [p \in Describers |-> <<>>]
    /\ idx = [p \in Describers |-> 1]
    /\ paired_items_ids = [p \in Describers |-> {}]
    /\ formatted_items = [p \in Describers |-> <<>>]
    /\ outcome = [p \in Describers |-> NoOut]
    /\ created = [p \in Describers |-> {}]
    /\ skipped = [p \in Describers |-> {}]
    /\ deleted = [p \in Describers |-> <<>>]

\* describe(), lines 163-173 and 88-97: the arguments r, the provider's
\* inventory inv, and the fetch of the local records
Begin(p, Reqs, Invs) ==
    /\ pc[p] = "idle"
    /\ \E r \in Reqs, inv \in Invs :
         \E its \in Orderings(get_db_items(db, r.ids)) :
            /\ nextId + Len(inv) <= MaxId + 1
            /\ req' = [req EXCEPT ![p] = r]
            /\ filter' = [filter EXCEPT ![p] = rewrite_filters(r.filter)]
            /\ selective_describe' =
                  [selective_describe EXCEPT ![p] = r.idsGiven \/ r.namesGiven]
            /\ ids' = [ids EXCEPT ![p] = r.ids]
            /\ names' = [names EXCEPT ![p] = r.names]
            /\ items' = [items EXCEPT ![p] = its]
            /\ os_items' = [os_items EXCEPT ![p] = inv]
            /\ pc' = [pc EXCEPT ![p] = IF inv = <<>> THEN after_loop(its) ELSE "loop"]
    /\ idx' = [idx EXCEPT ![p] = 1]
    /\ paired_items_ids' = [paired_items_ids EXCEPT ![p] = {}]
    /\ formatted_items' = [formatted_items EXCEPT ![p] = <<>>]
    /\ outcome' = [outcome EXCEPT ![p] = NoOut]
    /\ created' = [created EXCEPT ![p] = {}]
    /\ skipped' = [skipped EXCEPT ![p] = {}]
    /\ deleted' = [deleted EXCEPT ![p] = <<>>]
    /\ UNCHANGED <<glob, tags>>

\* variant: no selective rule
skips_never(sel, nms, scope, os_item, item) == FALSE

\* lines 103-106: the selective rule skips this external item
skips(sel, nms, scope, os_item, item) ==
    sel /\ ~(get_name(os_item) \in nms \/ (item # NoItem /\ item.id \in scope))

\* variant: the create of an iteration is undone when the iteration raises
db_after_iteration_rolled_back(store, creates, item, raised) ==
    IF creates /\ raised = NoOut THEN store \cup {item} ELSE store

\* lines 108-118: the store after one iteration; auto_update_db has written
\* before post_format or filtered_out can raise, and nothing undoes it
db_after_iteration(store, creates, item, raised) ==
    IF creates THEN store \cup {item} ELSE store

\* one iteration of the pairing loop, lines 98-119
LoopStep(p) ==
    /\ pc[p] = "loop"
    /\ LET os_item == os_items[p][idx[p]]
           os_item_name == get_name(os_item)
           os_item_id == get_id(os_item)
           item0 == items_dict_get(items[p], os_item_id)
           last == idx[p] = Len(os_items[p])
           nextpc == IF last THEN after_loop(items[p]) ELSE "loop"
           nextidx == IF last THEN 1 ELSE idx[p] + 1
       IN  IF skips(selective_describe[p], names[p], ids[p], os_item, item0)
           THEN /\ skipped' = [skipped EXCEPT ![p] = @ \cup {idx[p]}]
                /\ idx' = [idx EXCEPT ![p] = nextidx]
                /\ pc' = [pc EXCEPT ![p] = nextpc]
                /\ UNCHANGED <<glob, tags, req, selective_describe, ids, names,
                               filter, items, os_items, paired_items_ids,
                               formatted_items, outcome, created, deleted>>
           ELSE LET creates == auto_creates(KIND, item0)
                    item == IF creates THEN Item(nextId, os_item_id) ELSE item0
                    load == item # NoItem /\ ~tags[p].loaded
                    cache == IF load THEN get_tags(tagdb, ids[p]) ELSE tags[p].recs
                    ftags == IF item = NoItem THEN {} ELSE formatted_tags(cache, item)
                    f0 == format(item, os_item)
                    postErr == ftags # {} /\ f0 = NoProj
                    formatted_item == IF ftags # {} /\ f0 # NoProj
                                      THEN with_tagSet(f0, ftags) ELSE f0
                    verdict == IF formatted_item = NoProj THEN Verdict("True", <<>>)
                               ELSE filtered_out(formatted_item, req[p].filterGiven,
                                                 filter[p])
                    raised == IF postErr THEN Out("TypeError", 0, <<>>)
                              ELSE IF verdict.r \in {"True", "False"} THEN NoOut
                              ELSE Out(verdict.r, 0, verdict.name)
               IN  /\ db' = db_after_iteration(db, creates, item, raised)
                   /\ nextId' = IF creates THEN nextId + 1 ELSE nextId
                   /\ created' = [created EXCEPT ![p] =
                                    IF creates THEN @ \cup {item} ELSE @]
                   /\ paired_items_ids' = [paired_items_ids EXCEPT ![p] =
                                    IF item # NoItem THEN @ \cup {item.id} ELSE @]
                   /\ tags' = [tags EXCEPT ![p] =
                                    IF load THEN [loaded |-> TRUE, recs |-> cache] ELSE @]
                   /\ names' = [names EXCEPT ![p] =
                                    IF postErr THEN @ ELSE @ \ {os_item_name}]
                   /\ ids' = [ids EXCEPT ![p] =
                                    IF postErr \/ item = NoItem THEN @ ELSE @ \ {item.id}]
                   /\ formatted_items' = [formatted_items EXCEPT ![p] =
                                    IF raised = NoOut /\ verdict.r = "False"
                                    THEN Append(@, formatted_item) ELSE @]
                   /\ outcome' = [outcome EXCEPT ![p] = raised]
                   /\ idx' = [idx EXCEPT ![p] = IF raised = NoOut THEN nextidx ELSE @]
                   /\ pc' = [pc EXCEPT ![p] = IF raised = NoOut THEN nextpc ELSE "done"]
                   /\ UNCHANGED <<KIND, tagdb, req, selective_describe, filter,
                                  items, os_items, skipped, deleted>>

\* the (local record)-only projection hook of a kind without external
\* counterpart: a record of the output fields, or None
format_local(item) ==
    IF item.os_id = "E3" THEN NoProj
    ELSE [osId |-> item.os_id,
          name |-> IF item.os_id = "E1" THEN <<"a", "b">> ELSE <<"b">>,
          itemId |-> item.id]

\* variant: the test of the reconciling describe, 'formatted_item and not
\* self.filtered_out(...)'
local_verdict_not_none(formatted_item, given, filters) ==
    IF formatted_item = NoProj THEN Verdict("True", <<>>)
    ELSE filtered_out(formatted_item, given, filters)

\* NonOpenstackItemsDescriber.describe, line 204: filtered_out on whatever the
\* hook returned; on None, item.get raises AttributeError at the first filter
\* with a mapped name
local_verdict(formatted_item, given, filters) ==
    IF formatted_item # NoProj THEN filtered_out(formatted_item, given, filters)
    ELSE IF ~given THEN Verdict("False", <<>>)
    ELSE IF filters = <<>> THEN Verdict("True", <<>>)
    ELSE IF filters[1].name \notin DOMAIN FILTER_MAP
         THEN Verdict("InvalidParameterValue", filters[1].name)
    ELSE Verdict("AttributeError", <<>>)

\* NonOpenstackItemsDescriber.describe, lines 195-199 (and 163-173 ahead of
\* it): the arguments r and the fetch of the local records; names is not read
LocalBegin(p, Reqs) ==
    /\ pc[p] = "idle"
    /\ \E r \in Reqs :
         \E its \in Orderings(get_db_items(db, r.ids)) :
            /\ req' = [req EXCEPT ![p] = r]
            /\ filter' = [filter EXCEPT ![p] = rewrite_filters(r.filter)]
            /\ ids' = [ids EXCEPT ![p] = r.ids]
            /\ items' = [items EXCEPT ![p] = its]
            /\ pc' = [pc EXCEPT ![p] = IF its = <<>> THEN "done" ELSE "local"]
            /\ outcome' = [outcome EXCEPT ![p] =
                             IF its = <<>> THEN Out("ok", 0, <<>>) ELSE NoOut]
    /\ idx' = [idx EXCEPT ![p] = 1]
    /\ formatted_items' = [formatted_items EXCEPT ![p] = <<>>]
    /\ UNCHANGED <<glob, tags, selective_describe, names, os_items,
                   paired_items_ids, created, skipped, deleted>>

\* one iteration of the loop of lines 201-205, and line 206 after the last
LocalStep(p) ==
    /\ pc[p] = "local"
    /\ LET item == items[p][idx[p]]
           last == idx[p] = Len(items[p])
           load == ~tags[p].loaded
           cache == IF load THEN get_tags(tagdb, ids[p]) ELSE tags[p].recs
           ftags == formatted_tags(cache, item)
           f0 == format_local(item)
           postErr == ftags # {} /\ f0 = NoProj
           formatted_item == IF ftags # {} /\ f0 # NoProj
                             THEN with_tagSet(f0, ftags) ELSE f0
           verdict == local_verdict(formatted_item, req[p].filterGiven, filter[p])
           raised == IF postErr THEN Out("TypeError", 0, <<>>)
                     ELSE IF verdict.r \in {"True", "False"} THEN NoOut
                     ELSE Out(verdict.r, 0, verdict.name)
       IN  /\ tags' = [tags EXCEPT ![p] =
                         IF load THEN [loaded |-> TRUE, recs |-> cache] ELSE @]
           /\ formatted_items' = [formatted_items EXCEPT ![p] =
                         IF raised = NoOut /\ verdict.r = "False"
                         THEN Append(@, formatted_item) ELSE @]
           /\ outcome' = [outcome EXCEPT ![p] =
                         IF raised # NoOut THEN raised
                         ELSE IF last THEN Out("ok", 0, <<>>) ELSE NoOut]
           /\ idx' = [idx EXCEPT ![p] = IF raised = NoOut /\ ~last THEN @ + 1 ELSE @]
           /\ pc' = [pc EXCEPT ![p] = IF raised = NoOut /\ ~last THEN "local" ELSE "done"]
    /\ UNCHANGED <<glob, req, selective_describe, ids, names, filter, items,
                   os_items, paired_items_ids, created, skipped, deleted>>

\* db_api.delete_item: the store without the record of that id
delete_item(store, id) == { i \in store : i.id # id }

\* variants: the cleanup without the paired test, and no cleanup at all
is_obsolete_any(item, paired) == TRUE
is_obsolete_never(item, paired) == FALSE

\* variant: the paired test of the cleanup upside down
is_obsolete_paired(item, paired) == item.id \in paired

\* line 122: the record was not paired in this pass
is_obsolete(item, paired) == item.id \notin paired

\* variant: an unpaired fetched record is deleted as soon as it is seen, the
\* pairing loop still running
CleanupStep_in_loop(p) ==
    /\ pc[p] \in {"loop", "cleanup"}
    /\ IF pc[p] = "cleanup"
       THEN /\ pc' = [pc EXCEPT ![p] = "check"]
            /\ UNCHANGED <<db, deleted>>
       ELSE /\ \E k \in 1..Len(items[p]) :
                  /\ items[p][k] \in db
                  /\ is_obsolete(items[p][k], paired_items_ids[p])
                  /\ db' = delete_item(db, items[p][k].id)
                  /\ deleted' = [deleted EXCEPT ![p] = Append(@, items[p][k].id)]
            /\ UNCHANGED pc
    /\ UNCHANGED <<KIND, nextId, tagdb, tags, req, selective_describe, ids, names,
                   filter, items, os_items, idx, paired_items_ids, formatted_items,
                   outcome, created, skipped>>

\* one iteration of the cleanup loop, lines 121-123
CleanupStep(p) ==
    /\ pc[p] = "cleanup"
    /\ LET item == items[p][idx[p]]
           obsolete == is_obsolete(item, paired_items_ids[p])
           last == idx[p] = Len(items[p])
       IN  /\ db' = IF obsolete THEN delete_item(db, item.id) ELSE db
           /\ deleted' = [deleted EXCEPT ![p] =
                            IF obsolete THEN Append(@, item.id) ELSE @]
           /\ idx' = [idx EXCEPT ![p] = IF last THEN @ ELSE @ + 1]
           /\ pc' = [pc EXCEPT ![p] = IF last THEN "check" ELSE "cleanup"]
    /\ UNCHANGED <<KIND, nextId, tagdb, tags, req, selective_describe, ids, names,
                   filter, items, os_items, paired_items_ids, formatted_items,
                   outcome, created, skipped>>

\* variant: the error of db_api.delete_item is swallowed and the cleanup goes on
CleanupFail_suppressed(p) ==
    /\ pc[p] = "cleanup"
    /\ LET item == items[p][idx[p]]
           last == idx[p] = Len(items[p])
       IN  /\ is_obsolete(item, paired_items_ids[p])
           /\ deleted' = [deleted EXCEPT ![p] = Append(@, item.id)]
           /\ idx' = [idx EXCEPT ![p] = IF last THEN @ ELSE @ + 1]
           /\ pc' = [pc EXCEPT ![p] = IF last THEN "check" ELSE "cleanup"]
    /\ UNCHANGED <<glob, tags, req, selective_describe, ids, names, filter, items,
                   os_items, paired_items_ids, formatted_items, outcome, created,
                   skipped>>

\* lines 121-123 when db_api.delete_item raises: the error leaves describe()
CleanupFail(p) ==
    /\ pc[p] = "cleanup"
    /\ LET item == items[p][idx[p]]
       IN  /\ is_obsolete(item, paired_items_ids[p])
           /\ deleted' = [deleted EXCEPT ![p] = Append(@, item.id)]
    /\ outcome' = [outcome EXCEPT ![p] = Out("StoreError", 0, <<>>)]
    /\ pc' = [pc EXCEPT ![p] = "done"]
    /\ UNCHANGED <<glob, tags, req, selective_describe, ids, names, filter, items,
                   os_items, idx, paired_items_ids, formatted_items, created,
                   skipped>>

\* variant: next(iter(self.names or self.ids))
not_found_names_first(idset, nameset) ==
    IF nameset # {} THEN { Out("NotFound", 0, n) : n \in nameset }
    ELSE { Out("NotFound", i, <<>>) : i \in idset }

\* lines 126-127: next(iter(self.ids or self.names)) is any member of the
\* first of the two sets that is not empty
not_found(idset, nameset) ==
    IF idset # {} THEN { Out("NotFound", i, <<>>) : i \in idset }
    ELSE { Out("NotFound", 0, n) : n \in nameset }

\* lines 125-128
Finish(p) ==
    /\ pc[p] = "check"
    /\ IF ids[p] # {} \/ names[p] # {}
       THEN \E o \in not_found(ids[p], names[p]) :
                outcome' = [outcome EXCEPT ![p] = o]
       ELSE outcome' = [outcome EXCEPT ![p] = Out("ok", 0, <<>>)]
    /\ pc' = [pc EXCEPT ![p] = "done"]
    /\ UNCHANGED <<glob, tags, req, selective_describe, ids, names, filter, items,
                   os_items, idx, paired_items_ids, formatted_items, created,
                   skipped, deleted>>

\* describe() once more, by a new describer object q, with the arguments and
\* the provider inventory of the call of p that has returned (lines 163-173 and
\* 88-97)
BeginSecond(p, q) ==
    /\ pc[p] = "done" /\ outcome[p].kind = "ok"
    /\ pc[q] = "idle" /\ tags[q] = NoTags
    /\ \E its \in Orderings(get_db_items(db, req[p].ids)) :
          /\ items' = [items EXCEPT ![q] = its]
          /\ pc' = [pc EXCEPT ![q] =
                      IF os_items[p] = <<>> THEN after_loop(its) ELSE "loop"]
    /\ req' = [req EXCEPT ![q] = req[p]]
    /\ filter' = [filter EXCEPT ![q] = rewrite_filters(req[p].filter)]
    /\ selective_describe' =
          [selective_describe EXCEPT ![q] = req[p].idsGiven \/ req[p].namesGiven]
    /\ ids' = [ids EXCEPT ![q] = req[p].ids]
    /\ names' = [names EXCEPT ![q] = req[p].names]
    /\ os_items' = [os_items EXCEPT ![q] = os_items[p]]
    /\ idx' = [idx EXCEPT ![q] = 1]
    /\ paired_items_ids' = [paired_items_ids EXCEPT ![q] = {}]
    /\ formatted_items' = [formatted_items EXCEPT ![q] = <<>>]
    /\ outcome' = [outcome EXCEPT ![q] = NoOut]
    /\ created' = [created EXCEPT ![q] = {}]
    /\ skipped' = [skipped EXCEPT ![q] = {}]
    /\ deleted' = [deleted EXCEPT ![q] = <<>>]
    /\ UNCHANGED <<glob, tags>>

\* the caller has the result or the error; the describer object stays, with
\* its attributes (the locals of the call are dropped)
Return(p) ==
    /\ pc[p] = "done"
    /\ pc' = [pc EXCEPT ![p] = "idle"]
    /\ req' = [req EXCEPT ![p] = NoReq]
    /\ selective_describe' = [selective_describe EXCEPT ![p] = FALSE]
    /\ ids' = [ids EXCEPT ![p] = {}]
    /\ names' = [names EXCEPT ![p] = {}]
    /\ filter' = [filter EXCEPT ![p] = <<>>]
    /\ items' = [items EXCEPT ![p] = <<>>]
    /\ os_items' = [os_items EXCEPT ![p] = <<>>]
    /\ idx' = [idx EXCEPT ![p] = 1]
    /\ paired_items_ids' = [paired_items_ids EXCEPT ![p] = {}]
    /\ formatted_items' = [formatted_items EXCEPT ![p] = <<>>]
    /\ outcome' = [outcome EXCEPT ![p] = NoOut]
    /\ created' = [created EXCEPT ![p] = {}]
    /\ skipped' = [skipped EXCEPT ![p] = {}]
    /\ deleted' = [deleted EXCEPT ![p] = <<>>]
    /\ UNCHANGED <<glob, tags>>

\* a new describer object takes the place of p: the class attribute tags = None
Construct(p) ==
    /\ pc[p] = "idle"
    /\ tags[p] # NoTags
    /\ tags' = [tags EXCEPT ![p] = NoTags]
    /\ UNCHANGED <<glob, pc, call>>

\* another request of the service rewrites the tag records between two calls
SetTags ==
    /\ \A p \in Describers : pc[p] = "idle"
    /\ \E t \in TagStores : t # tagdb /\ tagdb' = t
    /\ UNCHANGED <<KIND, db, nextId, pc, tags, call>>

\* One call: a describer object is constructed for the request and describes
\* once, from any state of the store.
Next ==
    \/ Begin(1, Requests, Inventories)
    \/ LoopStep(1)
    \/ CleanupStep(1)
    \/ CleanupFail(1)
    \/ Finish(1)

Spec == Init /\ [][Next]_vars

\* One call of the describe of a kind without external counterpart.
NextLocal ==
    \/ LocalBegin(1, Requests)
    \/ LocalStep(1)

SpecLocal == Init /\ [][NextLocal]_vars

\* A describe without ids and names that has returned, and then the same
\* describe once more: the provider inventory is the same and nothing else
\* writes to the store.
TwiceRequests == { r \in Requests : ~r.idsGiven /\ ~r.namesGiven }
NextTwice ==
    \/ Begin(1, TwiceRequests, Inventories)
    \/ BeginSecond(1, 2)
    \/ \E p \in Describers :
          \/ LoopStep(p)
          \/ CleanupStep(p)
          \/ CleanupFail(p)
          \/ Finish(p)

SpecTwice == Init /\ [][NextTwice]_vars

\* One describer object that serves call after call, without filters; the tag
\* records change between calls and the object may be replaced by a new one.
ReuseRequests == { r \in Requests : ~r.filterGiven /\ ~r.namesGiven }
NextReuse ==
    \/ Begin(1, ReuseRequests, Inventories)
    \/ LoopStep(1)
    \/ CleanupStep(1)
    \/ CleanupFail(1)
    \/ Finish(1)
    \/ Return(1)
    \/ Construct(1)
    \/ SetTags

SpecReuse == Init /\ [][NextReuse]_vars

\* Two describer objects of the same kind whose calls interleave.
ConcRequests == { r \in Requests : ~r.filterGiven /\ ~r.namesGiven /\ r.ids \subseteq {1} }
ConcInventories == { s \in Inventories : \A k \in 1..Len(s) : ~s[k].hidden }
InitConc == Init /\ tagdb = {}
NextConc ==
    \E p \in Describers :
        \/ Begin(p, ConcRequests, ConcInventories)
        \/ LoopStep(p)
        \/ CleanupStep(p)
        \/ CleanupFail(p)
        \/ Finish(p)

SpecConc == InitConc /\ [][NextConc]_vars

----------------------------------------------------------------------------
(* Properties *)

Fetched(p) == Range(items[p])
FetchedIds(p) == { i.id : i \in Fetched(p) }
StoreIds == { i.id : i \in db }
NoDup(s) == \A i, j \in 1..Len(s) : i # j => s[i] # s[j]
AutoCreatable == KIND \notin VPC_KINDS
\* the pairing loop of p's call has run over all of os_items
LoopOver(p) ==
    \/ pc[p] \in {"cleanup", "check"}
    \/ pc[p] = "done" /\ outcome[p].kind \in {"ok", "NotFound", "StoreError"}
\* the cleanup loop of p's call has run over all of items
CleanupOver(p) ==
    \/ pc[p] = "check"
    \/ pc[p] = "done" /\ outcome[p].kind \in {"ok", "NotFound"}
CreatedFor(p, k) == { c \in created[p] : c.os_id = os_items[p][k].id }
HasFetched(p, k) == \E i \in Fetched(p) : i.os_id = os_items[p][k].id

\* C1 as stated: on an auto-creatable kind every external item without a fetched
\* record of its os_id gets exactly one new local record, keyed by its external
\* identity, and an item with a fetched record gets none.
C1_AsStated ==
    \A p \in Describers :
        (AutoCreatable /\ LoopOver(p)) =>
            \A k \in 1..Len(os_items[p]) :
                Cardinality(CreatedFor(p, k)) = IF HasFetched(p, k) THEN 0 ELSE 1

\* C1 amended: once the pairing loop is over, every external item that the
\* selective rule did not skip and that has no fetched record got exactly one new
\* local record keyed by its external identity; a skipped item and an item with a
\* fetched record got none; the new records are in the store.
C1_CreateOncePerUnpairedProcessedItem ==
    \A p \in Describers :
        (AutoCreatable /\ LoopOver(p)) =>
            /\ \A k \in 1..Len(os_items[p]) :
                  Cardinality(CreatedFor(p, k)) =
                      IF HasFetched(p, k) \/ k \in skipped[p] THEN 0 ELSE 1
            /\ \A c \in created[p] :
                  /\ c \in db
                  /\ c.id \notin FetchedIds(p)
                  /\ \E k \in 1..Len(os_items[p]) : c.os_id = os_items[p][k].id
            /\ \A c, d \in created[p] : c.id = d.id => c = d

C1_Witness ==
    /\ AutoCreatable /\ LoopOver(1) /\ Len(os_items[1]) = 2
    /\ HasFetched(1, 1) /\ 1 \notin skipped[1]
    /\ ~HasFetched(1, 2) /\ CreatedFor(1, 2) # {}

\* C2: every fetched record that was not paired is handed to
\* delete_obsolete_item exactly once by the end of the cleanup, a paired record
\* never, and no record twice; the deleted records are gone from the store.
C2_DeleteUnpairedExactlyOnce ==
    \A p \in Describers :
        /\ NoDup(deleted[p])
        /\ Range(deleted[p]) \subseteq FetchedIds(p) \ paired_items_ids[p]
        /\ CleanupOver(p) =>
              /\ Range(deleted[p]) = FetchedIds(p) \ paired_items_ids[p]
              /\ StoreIds \cap Range(deleted[p]) = {}
              /\ \A i \in Fetched(p) : i.id \in paired_items_ids[p] => i \in db

C2_Witness ==
    /\ CleanupOver(1) /\ Len(deleted[1]) = 1 /\ Len(items[1]) = 2
    /\ \E i \in Fetched(1) : i.id \in paired_items_ids[1]

\* C3: after a describe without ids, names and filter has returned on an
\* auto-creatable kind, the store holds exactly one record for each external
\* identity of the inventory and no record of any other external identity, and
\* every entry of the result is the projection of the store's record of its item.
C3_StoreMirrorsInventory ==
    \A p \in Describers :
        ( /\ AutoCreatable /\ pc[p] = "done" /\ outcome[p].kind = "ok"
          /\ ~req[p].idsGiven /\ ~req[p].namesGiven /\ ~req[p].filterGiven ) =>
            /\ \A k \in 1..Len(os_items[p]) :
                  Cardinality({ i \in db : i.os_id = os_items[p][k].id }) = 1
            /\ \A i \in db : \E k \in 1..Len(os_items[p]) : os_items[p][k].id = i.os_id
            /\ \A k \in 1..Len(formatted_items[p]) :
                  Item(formatted_items[p][k].itemId, formatted_items[p][k].osId) \in db

\* local {L1->E1, L2->E3 stale}, provider [E1, E2]: the store ends as
\* {L1->E1, L3->E2} and the result holds the projections of E1 and E2
C3_Witness ==
    /\ KIND = "i" /\ pc[1] = "done" /\ outcome[1].kind = "ok"
    /\ ~req[1].idsGiven /\ ~req[1].namesGiven /\ ~req[1].filterGiven
    /\ Fetched(1) = {Item(1, "E1"), Item(2, "E3")}
    /\ db = {Item(1, "E1"), Item(3, "E2")}
    /\ Len(formatted_items[1]) = 2
    /\ formatted_items[1][1].osId = "E1" /\ formatted_items[1][2].osId = "E2"

\* C4: when describe raises Not-Found, the cleanup has run to its end: every
\* fetched record that was not paired is out of the store and every auto-created
\* record is in it.
C4_CleanupBeforeNotFound ==
    \A p \in Describers :
        outcome[p].kind = "NotFound" =>
            /\ \A i \in Fetched(p) :
                  i.id \notin paired_items_ids[p] =>
                      i.id \in Range(deleted[p]) /\ i.id \notin StoreIds
            /\ created[p] \subseteq db

C4_Witness ==
    /\ outcome[1].kind = "NotFound"
    /\ deleted[1] # <<>> /\ created[1] # {}

\* C5: an external item skipped by the selective rule does not protect its
\* local record: once the cleanup is over, the fetched records of every skipped
\* item are deleted, and in a describe by names only every external item whose
\* name was not requested is skipped and its records are deleted.
C5_SkippedItemsLoseTheirRecord ==
    \A p \in Describers :
        CleanupOver(p) =>
            \A k \in 1..Len(os_items[p]) :
                /\ ( /\ req[p].namesGiven /\ ~req[p].idsGiven
                     /\ os_items[p][k].name \notin req[p].names ) => k \in skipped[p]
                /\ k \in skipped[p] =>
                      \A i \in Fetched(p) :
                          i.os_id = os_items[p][k].id =>
                              i.id \in Range(deleted[p]) /\ i \notin db

C5_Witness ==
    /\ CleanupOver(1) /\ req[1].namesGiven /\ ~req[1].idsGiven
    /\ \E k \in skipped[1] :
          /\ os_items[1][k].name \notin req[1].names
          /\ \E i \in Fetched(1) : i.os_id = os_items[1][k].id /\ i \notin db
    /\ formatted_items[1] # <<>>

\* the requested ids and names that no processed external item resolved
UnresolvedIds(p) == req[p].ids \ paired_items_ids[p]
UnresolvedNames(p) ==
    req[p].names \ { os_items[p][k].name : k \in (1..Len(os_items[p])) \ skipped[p] }

\* C6: a call that got past the cleanup raises Not-Found exactly when a requested
\* id or name is unresolved; the error names an unresolved id when there is one,
\* else an unresolved name; a call that returns has resolved them all.
C6_NotFoundIffUnresolved ==
    \A p \in Describers :
        (pc[p] = "done" /\ outcome[p].kind \in {"ok", "NotFound"}) =>
            /\ outcome[p].kind = "NotFound" <=>
                  (UnresolvedIds(p) # {} \/ UnresolvedNames(p) # {})
            /\ outcome[p].kind = "NotFound" =>
                  IF UnresolvedIds(p) # {}
                  THEN outcome[p].id \in UnresolvedIds(p)
                  ELSE outcome[p].id = 0 /\ outcome[p].name \in UnresolvedNames(p)

C6_Witness ==
    /\ pc[1] = "done" /\ outcome[1].kind = "NotFound"
    /\ UnresolvedIds(1) = {1, 2} /\ UnresolvedNames(1) # {}
    /\ outcome[1].id = 2 /\ os_items[1] # <<>>

\* the local record that the pairing loop used for os_items[p][k]
LocalFor(p, k) ==
    LET i0 == items_dict_get(items[p], os_items[p][k].id)
    IN  IF i0 # NoItem THEN i0
        ELSE IF CreatedFor(p, k) # {} THEN CHOOSE c \in CreatedFor(p, k) : TRUE
        ELSE NoItem
\* the projection of os_items[p][k] with the tags of p's cache
Projection(p, k) ==
    LET it == LocalFor(p, k)
        f0 == format(it, os_items[p][k])
        ts == IF it = NoItem THEN {} ELSE formatted_tags(tags[p].recs, it)
    IN  IF f0 # NoProj /\ ts # {} THEN with_tagSet(f0, ts) ELSE f0
RECURSIVE ProjectionsFrom(_, _)
ProjectionsFrom(p, k) ==
    IF k > Len(os_items[p]) THEN <<>>
    ELSE IF k \in skipped[p] \/ Projection(p, k) = NoProj
         THEN ProjectionsFrom(p, k + 1)
         ELSE <<Projection(p, k)>> \o ProjectionsFrom(p, k + 1)

\* C8: with filter = None the result of a call that returns is the sequence of
\* the non-null projections of the external items that the selective rule did
\* not skip, in the provider's order, one entry per item.
C8_ResultIsProjectionOfProcessed ==
    \A p \in Describers :
        (pc[p] = "done" /\ outcome[p].kind = "ok" /\ ~req[p].filterGiven) =>
            formatted_items[p] = ProjectionsFrom(p, 1)

C8_Witness ==
    /\ pc[1] = "done" /\ outcome[1].kind = "ok" /\ ~req[1].filterGiven
    /\ Len(os_items[1]) = 2 /\ skipped[1] = {1}
    /\ Len(formatted_items[1]) = 1 /\ "tagSet" \in DOMAIN formatted_items[1][1]

\* filtered_out gets as far as filters[j], whose name is unmapped, on item: the
\* filters before it are mapped, have candidates and match none of them
ReachesUnmapped(item, filters, j) ==
    /\ j \in 1..Len(filters)
    /\ filters[j].name \notin DOMAIN FILTER_MAP
    /\ \A i \in 1..(j - 1) :
          /\ filters[i].name \in DOMAIN FILTER_MAP
          /\ filter_candidates(item, FILTER_MAP[filters[i].name]) # {}
          /\ \A n \in 1..Len(filters[i].value) :
                \A v \in filter_candidates(item, FILTER_MAP[filters[i].name]) :
                    is_filtering_value_found(filters[i].value[n], v) = "F"
\* the external items whose loop iteration ended without an error
Completed(p) ==
    IF LoopOver(p) THEN 1..Len(os_items[p])
    ELSE IF pc[p] \in {"loop", "done"} THEN 1..(idx[p] - 1)
    ELSE {}
Filtered(p, k) == k \notin skipped[p] /\ Projection(p, k) # NoProj

\* C9 as stated: a call whose filter list holds an unmapped name ends with
\* InvalidParameterValue for that name, whatever the inventory and the position.
C9_AsStated ==
    \A p \in Describers :
        (pc[p] = "done" /\ first_unmapped(filter[p]) # 0) =>
            /\ outcome[p].kind = "InvalidParameterValue"
            /\ \E j \in 1..Len(filter[p]) :
                  /\ filter[p][j].name \notin DOMAIN FILTER_MAP
                  /\ outcome[p].name = filter[p][j].name

\* C9 amended: the call ends with InvalidParameterValue for a filter name exactly
\* at the first external item that is not skipped, has a non-null projection and
\* on which the evaluation gets as far as the unmapped filter (every filter
\* before it is mapped, has candidates and matches none); no item whose
\* iteration ended without an error is such an item.
C9_InvalidFilterWhenEvaluated ==
    \A p \in Describers :
        /\ outcome[p].kind = "InvalidParameterValue" =>
              /\ Filtered(p, idx[p])
              /\ \E j \in 1..Len(filter[p]) :
                    /\ ReachesUnmapped(Projection(p, idx[p]), filter[p], j)
                    /\ outcome[p].name = filter[p][j].name
        /\ \A k \in Completed(p) :
              Filtered(p, k) =>
                  \A j \in 1..Len(filter[p]) :
                      ~ReachesUnmapped(Projection(p, k), filter[p], j)

C9_Witness ==
    /\ outcome[1].kind = "InvalidParameterValue"
    /\ Len(filter[1]) = 2 /\ idx[1] = 2
    /\ Filtered(1, 1) /\ formatted_items[1] # <<>>

\* C10: the tagSet of every entry of a returned result is built from the tag
\* records that the store holds for the id scope of that call: present exactly
\* when the record owns such tag records, and then equal to their pairs.
C10_TagSetOfThisCall ==
    \A p \in Describers :
        (pc[p] = "done" /\ outcome[p].kind = "ok") =>
            \A k \in 1..Len(formatted_items[p]) :
                LET r == formatted_items[p][k]
                    now == formatted_tags(get_tags(tagdb, req[p].ids),
                                          Item(r.itemId, r.osId))
                IN  IF now = {} THEN "tagSet" \notin DOMAIN r
                    ELSE "tagSet" \in DOMAIN r /\ r.tagSet = now

\* C7: when two passes interleave, two records for one external identity come
\* to exist only by both passes creating one, neither having fetched the
\* other's (both saw the item without a local record), and a pass deletes
\* only records that it fetched and did not pair itself, whatever the other
\* pass does with them.  The witness is an interleaving with both effects.
C7_DuplicatesOnlyWhenBothSawMissing ==
    \A p, q \in Describers :
        p # q =>
            /\ \A c \in created[p], d \in created[q] :
                  /\ c.id # d.id
                  /\ c.os_id = d.os_id => c \notin Fetched(q) /\ d \notin Fetched(p)
            /\ Range(deleted[p]) \subseteq FetchedIds(p) \ paired_items_ids[p]

\* both passes have created a record for the same external item, and the pass
\* that is still in its pairing loop is about to pair a record that it fetched
\* and that the other pass has deleted meanwhile
C7_Witness ==
    \E p, q \in Describers :
        /\ p # q /\ pc[q] = "loop"
        /\ \E c \in created[p], d \in created[q] :
              c.os_id = d.os_id /\ c \in db /\ d \in db
        /\ \E i \in Fetched(q) :
              /\ i.id \in Range(deleted[p]) /\ i \notin db
              /\ os_items[q][idx[q]].id = i.os_id

\* C11: a projected record of a result carries a tagSet exactly when its local
\* record is not None and owns a tag record of the describer's loaded tags; the
\* tagSet is then the set of that record's {key, value} pairs, and it is never
\* empty.
C11_TagSetIffOwnedTags ==
    \A p \in Describers :
        \A k \in 1..Len(formatted_items[p]) :
            LET r == formatted_items[p][k]
                owned == { t \in tags[p].recs : t.item_id = r.itemId }
            IN  /\ "tagSet" \in DOMAIN r <=> (r.itemId # NoItem.id /\ owned # {})
                /\ "tagSet" \in DOMAIN r =>
                      /\ r.tagSet # {}
                      /\ r.tagSet = { [key |-> t.key, value |-> t.value] : t \in owned }

\* a result with a tagged record, and after it a record that has a local record
\* and no tag
C11_Witness ==
    /\ pc[1] = "done" /\ outcome[1].kind = "ok" /\ Len(formatted_items[1]) = 2
    /\ "tagSet" \in DOMAIN formatted_items[1][1]
    /\ "tagSet" \notin DOMAIN formatted_items[1][2]
    /\ formatted_items[1][2].itemId # NoItem.id
    /\ tags[1].recs # {}

\* the call of p has the single filter 'tag:<K>'
SingleTagFilter(p) ==
    /\ pc[p] # "idle" /\ req[p].filterGiven /\ Len(req[p].filter) = 1
    /\ Len(req[p].filter[1].name) = 2 /\ req[p].filter[1].name[1] = "tag"

\* C12: a single filter 'tag:K' with values V reaches the base describe as the
\* filter 'tag' with the one value {key K, value V}; the name is never rejected,
\* and the result of a call that returns holds exactly the processed records
\* whose tagSet has a pair with key K and a value that matches an element of V.
C12_TagFilterRetainsMatchingPair ==
    \A p \in Describers :
        SingleTagFilter(p) =>
            LET K == req[p].filter[1].name[2]
                V == req[p].filter[1].value
                keep(r) == /\ "tagSet" \in DOMAIN r
                           /\ \E pair \in r.tagSet :
                                 /\ pair.key = K
                                 /\ \E n \in 1..Len(V) : fnmatch(pair.value, V[n].s)
            IN  /\ filter[p] = <<[name |-> <<"tag">>,
                                  value |-> <<[t |-> "dict", key |-> K, value |-> V]>>]>>
                /\ outcome[p].kind # "InvalidParameterValue"
                /\ (pc[p] = "done" /\ outcome[p].kind = "ok") =>
                      formatted_items[p] = SelectSeq(ProjectionsFrom(p, 1), keep)

\* tag:k = [c, a*] over a record tagged k=ab (retained) and a record tagged
\* k=b, j=ab (excluded: the matching value is under another key)
C12_Witness ==
    /\ SingleTagFilter(1) /\ pc[1] = "done" /\ outcome[1].kind = "ok"
    /\ Len(ProjectionsFrom(1, 1)) = 2 /\ Len(formatted_items[1]) = 1
    /\ formatted_items[1][1].tagSet = {[key |-> "k", value |-> <<"a", "b">>]}
    /\ \E k \in 1..2 :
          /\ "tagSet" \in DOMAIN Projection(1, k)
          /\ [key |-> "j", value |-> <<"a", "b">>] \in Projection(1, k).tagSet

\* the call of p has a single filter whose name the kind maps to a simple path
SingleSimpleFilter(p) ==
    /\ pc[p] # "idle" /\ req[p].filterGiven /\ Len(req[p].filter) = 1
    /\ req[p].filter[1].name \in DOMAIN KindFilterMap
    /\ KindFilterMap[req[p].filter[1].name].path = "simple"
\* r without its attribute a
Without(r, a) == [x \in (DOMAIN r) \ {a} |-> r[x]]

\* C13: with a single filter on a simple path the result of a call that returns
\* holds exactly the processed records whose attribute at that path is not empty
\* and matches one of the filter's values; a record with an empty attribute, or
\* without the attribute, is excluded even when a value of the filter is a
\* pattern that would match it.
C13_SimpleFilterRetainsMatchingValue ==
    \A p \in Describers :
        SingleSimpleFilter(p) =>
            LET a == KindFilterMap[req[p].filter[1].name].attr
                V == req[p].filter[1].value
                keep(r) == /\ a \in DOMAIN r
                           /\ r[a] # <<>>
                           /\ \E n \in 1..Len(V) : fnmatch(r[a], V[n].s)
            IN  /\ outcome[p].kind # "InvalidParameterValue"
                /\ (pc[p] = "done" /\ outcome[p].kind = "ok") =>
                      formatted_items[p] = SelectSeq(ProjectionsFrom(p, 1), keep)
                /\ \A k \in 1..Len(os_items[p]) :
                      Projection(p, k) # NoProj =>
                          filtered_out(Without(Projection(p, k), a), TRUE,
                                       filter[p]).r = "True"

\* name = ['', a*] over the names ab (retained by a*) and '' (excluded, though
\* the pattern '' matches it)
C13_Witness ==
    /\ SingleSimpleFilter(1) /\ pc[1] = "done" /\ outcome[1].kind = "ok"
    /\ Len(ProjectionsFrom(1, 1)) = 2 /\ Len(formatted_items[1]) = 1
    /\ formatted_items[1][1].name = <<"a", "b">>
    /\ \E k \in 1..2 : Projection(1, k).name = <<>>
    /\ \E n \in 1..Len(req[1].filter[1].value) :
          fnmatch(<<>>, req[1].filter[1].value[n].s)

\* C14: on a kind of VPC_KINDS no call creates a local record: the store stays
\* within the records it had and hands out no identifier; an entry of the result
\* whose external item has no fetched record has the local record None (and so
\* no tagSet); only fetched records are marked paired, and only their ids leave
\* the requested ids.
C14_NoAutoCreateForVpcKinds ==
    KIND \in VPC_KINDS =>
        /\ \E d \in InitDbs : db \subseteq d /\ nextId = 1 + MaxOf({ i.id : i \in d })
        /\ \A p \in Describers :
              /\ created[p] = {}
              /\ paired_items_ids[p] \subseteq FetchedIds(p)
              /\ pc[p] # "idle" => req[p].ids \ ids[p] \subseteq FetchedIds(p)
              /\ \A k \in 1..Len(formatted_items[p]) :
                    LET r == formatted_items[p][k]
                    IN  (\A i \in Fetched(p) : i.os_id # r.osId) =>
                            r.itemId = NoItem.id /\ "tagSet" \notin DOMAIN r

\* a vpc-kind describe has returned an entry without local record next to an
\* entry with one
C14_Witness ==
    /\ KIND \in VPC_KINDS /\ pc[1] = "done" /\ outcome[1].kind = "ok"
    /\ paired_items_ids[1] # {}
    /\ \E k \in 1..Len(formatted_items[1]) : formatted_items[1][k].itemId = NoItem.id
    /\ \E k \in 1..Len(formatted_items[1]) : formatted_items[1][k].itemId # NoItem.id

\* the projection of the fetched record items[p][k] with the tags of p's cache
LocalProjection(p, k) ==
    LET f0 == format_local(items[p][k])
        ts == { [key |-> t.key, value |-> t.value] :
                  t \in { x \in tags[p].recs : x.item_id = items[p][k].id } }
    IN  IF f0 # NoProj /\ ts # {} THEN with_tagSet(f0, ts) ELSE f0
LocalProjections(p) == [k \in 1..Len(items[p]) |-> LocalProjection(p, k)]

\* what a call of the local-only describe leaves as it was, and its result
C15_LocalState ==
    \A p \in Describers :
        /\ os_items[p] = <<>> /\ names[p] = {}
        /\ outcome[p].kind # "NotFound"
        /\ pc[p] # "idle" =>
              /\ Range(items[p]) = get_db_items(db, req[p].ids)
              /\ NoDup(items[p])
        /\ (pc[p] = "done" /\ outcome[p].kind = "ok") =>
              LET keep(r) == IF ~req[p].filterGiven THEN TRUE
                             ELSE /\ r # NoProj
                                  /\ filtered_out(r, TRUE, filter[p]).r = "False"
              IN  formatted_items[p] = SelectSeq(LocalProjections(p), keep)
C15_LocalFrame == db' = db /\ nextId' = nextId /\ tagdb' = tagdb

\* C15: no step of the local-only describe changes the local store (no create,
\* no delete), it fetches nothing from the provider, does not read names, never
\* ends with Not-Found, whatever ids were requested, and a call that returns
\* gives the projections of the records fetched by id scope, in fetch order,
\* that pass the filter.
C15_LocalDescribeLeavesStore == [][C15_LocalFrame]_vars /\ []C15_LocalState

\* a call by two ids, one of them not in the store, with names and a name
\* filter has returned the one record of the store that the filter passes
C15_Witness ==
    /\ pc[1] = "done" /\ outcome[1].kind = "ok"
    /\ req[1].ids = {1, 2} /\ req[1].names # {} /\ Len(filter[1]) = 1
    /\ Len(items[1]) = 1 /\ Len(formatted_items[1]) = 1

\* while the pairing loop of p runs nothing is deleted
C16_LoopState ==
    \A p \in Describers :
        /\ pc[p] = "loop" => deleted[p] = <<>>
        /\ deleted[p] # <<>> => LoopOver(p)
\* a step that takes a record out of the store is a step of a cleanup loop, and
\* once a pass has deleted, it neither creates nor projects
C16_LoopStep ==
    /\ (\E i \in db : i \notin db') => \E p \in Describers : pc[p] = "cleanup"
    /\ \A p \in Describers :
          (deleted[p] # <<>> \/ deleted'[p] # <<>>) =>
              /\ created'[p] = created[p]
              /\ formatted_items'[p] = formatted_items[p]
              /\ paired_items_ids'[p] = paired_items_ids[p]

\* C16: within one describe pass no record is deleted while the pairing loop
\* runs: every create and every projection of the pass comes before its first
\* delete.
C16_DeleteOnlyAfterLoop == []C16_LoopState /\ [][C16_LoopStep]_vars

\* the cleanup has deleted a first record, after a pairing loop that created
\* and projected
C16_Witness ==
    /\ pc[1] = "cleanup" /\ Len(deleted[1]) = 1
    /\ created[1] # {} /\ formatted_items[1] # <<>>

\* the deletes of p's cleanup that left their record in the store
FailedDeletes(p) == { k \in 1..Len(deleted[p]) : deleted[p][k] \in StoreIds }

\* C17: a delete that fails in the cleanup ends the call with that error, at
\* that record: the call is over without result and without the unresolved
\* check, the records deleted before it are out of the store, the auto-created
\* records are in it, and the record of the failed delete and every fetched
\* record after it are still in the store.
C17_FailedDeleteAborts ==
    \A p \in Describers :
        /\ outcome[p].kind = "StoreError" <=> FailedDeletes(p) # {}
        /\ FailedDeletes(p) # {} =>
              /\ pc[p] = "done"
              /\ FailedDeletes(p) = {Len(deleted[p])}
              /\ items[p][idx[p]].id = deleted[p][Len(deleted[p])]
              /\ created[p] \subseteq db
              /\ \A k \in 1..Len(items[p]) :
                    IF k >= idx[p] THEN items[p][k] \in db
                    ELSE items[p][k].id \notin paired_items_ids[p] =>
                            /\ items[p][k] \notin db
                            /\ \E n \in 1..(Len(deleted[p]) - 1) :
                                  deleted[p][n] = items[p][k].id

\* the second delete of a cleanup has failed, after a pairing loop that created
\* a record
C17_Witness ==
    /\ outcome[1].kind = "StoreError" /\ Len(deleted[1]) = 2
    /\ created[1] # {} /\ Cardinality(db) = 2

\* the first delete of a cleanup has failed and a record that was not paired
\* is left behind it
C17_WitnessRemaining ==
    /\ outcome[1].kind = "StoreError" /\ Len(deleted[1]) = 1 /\ Len(items[1]) = 2
    /\ items[1][2].id \notin paired_items_ids[1]

\* filters[j] has a mapped name and candidate values on r
HasCandidates(r, filters, j) ==
    /\ filters[j].name \in DOMAIN FILTER_MAP
    /\ filter_candidates(r, FILTER_MAP[filters[j].name]) # {}
\* a value of filters[j] matches a candidate value of r
Matches(r, filters, j) ==
    /\ filters[j].name \in DOMAIN FILTER_MAP
    /\ \E n \in 1..Len(filters[j].value) :
          \E v \in filter_candidates(r, FILTER_MAP[filters[j].name]) :
              is_filtering_value_found(filters[j].value[n], v) = "T"
\* the first filter, in list order, after candidates everywhere before it
RetainedBy(r, filters) ==
    \E j \in 1..Len(filters) :
        /\ Matches(r, filters, j)
        /\ \A i \in 1..(j - 1) : HasCandidates(r, filters, i)

\* C18: with a filter list that is not None, the result of a call that returns
\* holds exactly the processed records for which some filter, in list order,
\* matches and every filter before it has a mapped name and candidate values:
\* one matching filter is enough (OR), a filter without candidates excludes the
\* record whatever the later filters are, and with no match at all, the empty
\* list included, the record is excluded.
C18_RetainedByFirstMatch ==
    \A p \in Describers :
        (pc[p] = "done" /\ outcome[p].kind = "ok" /\ req[p].filterGiven) =>
            LET keep(r) == RetainedBy(r, filter[p])
            IN  formatted_items[p] = SelectSeq(ProjectionsFrom(p, 1), keep)

\* [tag-key j; name *]: the record tagged k only is retained by its name after
\* the first filter did not match; the record without tags is excluded by the
\* first filter though its name matches the second
C18_Witness ==
    /\ pc[1] = "done" /\ outcome[1].kind = "ok" /\ Len(filter[1]) = 2
    /\ Len(ProjectionsFrom(1, 1)) = 2 /\ Len(formatted_items[1]) = 1
    /\ ~Matches(formatted_items[1][1], filter[1], 1)
    /\ Matches(formatted_items[1][1], filter[1], 2)
    /\ \E k \in 1..2 :
          /\ ~HasCandidates(Projection(1, k), filter[1], 1)
          /\ Matches(Projection(1, k), filter[1], 2)

\* C19: a call that ended with InvalidParameterValue for a filter name ended in
\* its pairing loop, at an external item it was filtering: the records created
\* for the items processed so far, that item included, are in the store, every
\* processed item without a fetched record has one on an auto-creatable kind,
\* nothing was deleted (every fetched record is still in the store), and the
\* call has an error and no result.
C19_InvalidFilterKeepsCreates ==
    \A p \in Describers :
        outcome[p].kind = "InvalidParameterValue" =>
            /\ pc[p] = "done" /\ idx[p] \in 1..Len(os_items[p])
            /\ idx[p] \notin skipped[p]
            /\ deleted[p] = <<>>
            /\ Fetched(p) \subseteq db
            /\ created[p] \subseteq db
            /\ AutoCreatable =>
                  \A k \in (1..idx[p]) \ skipped[p] :
                      ~HasFetched(p, k) =>
                          \E c \in db : c.os_id = os_items[p][k].id /\ c \in created[p]

\* the error came at the second external item, for which a record was created
\* just before, while a fetched record that no item paired is still in the store
C19_Witness ==
    /\ outcome[1].kind = "InvalidParameterValue" /\ idx[1] = 2
    /\ CreatedFor(1, 2) # {} /\ CreatedFor(1, 2) \subseteq db
    /\ \E i \in Fetched(1) : i.id \notin paired_items_ids[1] /\ i \in db

\* the store as the call of p left it: what it fetched and created, without
\* what it deleted
StoreAfter(p) ==
    { i \in Fetched(p) \cup created[p] : i.id \notin Range(deleted[p]) }

\* C20: the second of two describes without ids and names, the inventory
\* unchanged and no other writer, creates no record and hands no record to the
\* cleanup: the store stays as the first pass left it, and the second pass
\* returns, with the result list of the first.
C20_SecondPassChangesNothing ==
    pc[2] # "idle" =>
        /\ created[2] = {} /\ deleted[2] = <<>>
        /\ db = StoreAfter(1)
        /\ Fetched(2) = db
        /\ pc[2] = "done" =>
              /\ outcome[2].kind = "ok"
              /\ formatted_items[2] = formatted_items[1]

\* the first pass created and deleted, and the second pass has returned the
\* same two entries
C20_Witness ==
    /\ pc[2] = "done" /\ outcome[2].kind = "ok"
    /\ created[1] # {} /\ deleted[1] # <<>>
    /\ Len(formatted_items[2]) = 2 /\ formatted_items[2] = formatted_items[1]
    /\ "tagSet" \in DOMAIN formatted_items[2][1]
====
